---- MODULE Spec2Model ----
(***************************************************************************)
(* A model of FWHR_calculator.py: the landmark geometry extractor          *)
(* (get_face_points), the quality gate (good_picture_check), the ratio     *)
(* calculator (FWHR_calc), the single-image pipeline (get_fwhr) and the    *)
(* batch orchestrator (get_fwhr_bulk).                                     *)
(*                                                                         *)
(* Python's true division yields a double.  Every quotient the program     *)
(* forms is a quotient of small integers (pixel coordinates), and it is    *)
(* only ever compared with 5, 3.5 and 3 or stored; on that range the       *)
(* double comparison agrees with the comparison of the exact quotients, so *)
(* a quotient is kept here as an exact fraction <<numerator, denominator>>.*)
(***************************************************************************)
EXTENDS Integers, Sequences, FiniteSets, TLC

VARIABLES
    pc,          \* position of the call in progress
    points,      \* the landmark list handed to the function under call
    method,      \* get_face_points' argument method
    top,         \* get_face_points' argument top
    gate,        \* outcome of good_picture_check
    coords,      \* get_face_points' local coords (before the eyelid shift)
    corners,     \* outcome of get_face_points
    ratio,       \* outcome of FWHR_calc
    dir,         \* os.listdir(directory): the entries in listing order
    sort_by,     \* get_fwhr_bulk's argument sort_by
    idx,         \* position of the for loop in the listing
    image_data,  \* get_fwhr_bulk's local image_data
    processed,   \* the file names get_fwhr was called on, in call order
    error,       \* the exception that ended the call, if any
    csv_written, \* whether fwhr_ratios.csv was written
    csv          \* the rows written to fwhr_ratios.csv

vars == <<pc, points, method, top, gate, coords, corners, ratio,
          dir, sort_by, idx, image_data, processed, error, csv_written, csv>>

(***************************************************************************)
(* Bounds of the model.                                                    *)
(***************************************************************************)
\* Coordinates vary over an anchor value and 0..MaxJitter pixels past a
\* value that sits exactly on a threshold.
MaxJitter == 1
\* The largest number of entries in the directory.
MaxFiles == 3

(***************************************************************************)
(* Outcomes of a call: a returned value or a raised exception.             *)
(***************************************************************************)
Return(v) == [kind |-> "return", val |-> v]
Raise(e) == [kind |-> "raise", val |-> e]
Pending == [kind |-> "pending", val |-> "pending"]
Returned(r) == r.kind = "return"
Raised(r) == r.kind = "raise"

\* A landmark is an (x, y) tuple; Python reads p[i][0] and p[i][1].
X(pt) == pt[1]
Y(pt) == pt[2]

(***************************************************************************)
(* Arithmetic.                                                             *)
(***************************************************************************)
Abs(n) == IF n < 0 THEN -n ELSE n
Sign(n) == IF n < 0 THEN -1 ELSE IF n > 0 THEN 1 ELSE 0

RECURSIVE Gcd(_, _)
Gcd(a, b) == IF b = 0 THEN a ELSE Gcd(b, a % b)

\* The double a true division yields, as the fraction in lowest terms
\* with a positive denominator.
Frac(n, d) ==
    LET g == Gcd(Abs(n), Abs(d))
    IN  <<(Sign(d) * n) \div g, Abs(d) \div g>>
FracSub(a, b) == Frac(a[1] * b[2] - b[1] * a[2], a[2] * b[2])
FracDiv(a, b) == Frac(a[1] * b[2], a[2] * b[1])
FracGt(a, b) == a[1] * b[2] > b[1] * a[2]
FracLt(a, b) == a[1] * b[2] < b[1] * a[2]
FracOfInt(n) == <<n, 1>>
IsZero(a) == a[1] = 0

\* A variant of IntHalf that rounds down (// in place of int(/)).
IntHalfFloor(s) == s \div 2
\* int(s / 2): the quotient as a double, truncated toward zero.
IntHalf(s) == IF s >= 0 THEN s \div 2 ELSE -((-s) \div 2)

(***************************************************************************)
(* good_picture_check                                                      *)
(***************************************************************************)
WidthScale == 100
EyeThreshold == 5
NoseThreshold == <<7, 2>>
SpaceThreshold == 3

width_im(p) == Frac(X(p[16]) - X(p[0]), WidthScale)
eye_y_l(p) == Frac(Y(p[37]) + Y(p[41]), 2)
eye_y_r(p) == Frac(Y(p[44]) + Y(p[46]), 2)
eye_dif(p) == FracDiv(FracSub(eye_y_r(p), eye_y_l(p)), width_im(p))
nose_dif(p) == FracDiv(FracOfInt(X(p[30]) - X(p[27])), width_im(p))
left_space(p) == X(p[36]) - X(p[0])
right_space(p) == X(p[16]) - X(p[45])
space_ratio(p) == Frac(left_space(p), right_space(p))

\* A variant of Rejected that compares with >= in place of >.
RejectedInclusive(p) ==
    \/ ~FracLt(eye_dif(p), FracOfInt(EyeThreshold))
    \/ ~FracLt(nose_dif(p), NoseThreshold)
    \/ ~FracLt(space_ratio(p), FracOfInt(SpaceThreshold))
\* The rule of line 123.
Rejected(p) ==
    \/ FracGt(eye_dif(p), FracOfInt(EyeThreshold))
    \/ FracGt(nose_dif(p), NoseThreshold)
    \/ FracGt(space_ratio(p), FracOfInt(SpaceThreshold))

good_picture_check(p) ==
    IF IsZero(width_im(p))
    THEN Raise("ZeroDivisionError")      \* line 109: division by 0.0
    ELSE IF right_space(p) = 0
    THEN Raise("ZeroDivisionError")      \* line 117: division by 0
    ELSE IF Rejected(p) THEN Return(FALSE) ELSE Return(TRUE)

(***************************************************************************)
(* get_face_points                                                         *)
(***************************************************************************)
EyelidShift == 4

\* A variant of select_coords that rejects an unrecognized method as it
\* rejects an unrecognized top.
select_coords_strict(pts, m, t) ==
    IF t \notin {"eyebrow", "eyelid"} \/ m \notin {"left", "right", "average"}
    THEN Raise("ValueError")
    ELSE LET top_left == IF t = "eyebrow" THEN pts[18] ELSE pts[37]
             top_right == IF t = "eyebrow" THEN pts[25] ELSE pts[43]
         IN  IF m = "left"
             THEN Return(<<X(pts[0]), X(pts[16]), Y(top_left), Y(pts[50])>>)
             ELSE IF m = "right"
             THEN Return(<<X(pts[0]), X(pts[16]), Y(top_right), Y(pts[52])>>)
             ELSE Return(<<X(pts[0]), X(pts[16]),
                           IntHalf(Y(top_left) + Y(top_right)),
                           IntHalf(Y(pts[50]) + Y(pts[52]))>>)
\* Lines 55-79: the edge, top and bottom landmarks and the tuple coords.
select_coords(pts, m, t) ==
    LET width_left == pts[0]
        width_right == pts[16]
        bottom_left == pts[50]
        bottom_right == pts[52]
    IN  IF t \notin {"eyebrow", "eyelid"}
        THEN Raise("ValueError")
        ELSE LET top_left == IF t = "eyebrow" THEN pts[18] ELSE pts[37]
                 top_right == IF t = "eyebrow" THEN pts[25] ELSE pts[43]
             IN  IF m = "left"
                 THEN Return(<<X(width_left), X(width_right),
                               Y(top_left), Y(bottom_left)>>)
                 ELSE IF m = "right"
                 THEN Return(<<X(width_left), X(width_right),
                               Y(top_right), Y(bottom_right)>>)
                 ELSE Return(<<X(width_left), X(width_right),
                               IntHalf(Y(top_left) + Y(top_right)),
                               IntHalf(Y(bottom_left) + Y(bottom_right))>>)

\* A variant of shift_coords that moves the bottom line as well.
shift_coords_both(c, t) ==
    IF t = "eyelid"
    THEN <<c[1], c[2], c[3] - EyelidShift, c[4] - EyelidShift>>
    ELSE c
\* Lines 82-83: the eyelid line is moved up.
shift_coords(c, t) ==
    IF t = "eyelid" THEN <<c[1], c[2], c[3] - EyelidShift, c[4]>> ELSE c

\* Lines 85-89: the returned dictionary.
box(c) ==
    [top_left |-> <<c[1], c[3]>>,
     bottom_left |-> <<c[1], c[4]>>,
     top_right |-> <<c[2], c[3]>>,
     bottom_right |-> <<c[2], c[4]>>]

get_face_points(pts, m, t) ==
    LET c == select_coords(pts, m, t)
    IN  IF Raised(c) THEN c ELSE Return(box(shift_coords(c.val, t)))

(***************************************************************************)
(* FWHR_calc                                                               *)
(***************************************************************************)
\* A variant of FWHR_calc that divides the magnitudes.
FWHR_calc_abs(cs) ==
    LET width == X(cs.top_right) - X(cs.top_left)
        height == Y(cs.bottom_left) - Y(cs.top_left)
    IN  IF height = 0
        THEN Raise("ZeroDivisionError")
        ELSE Return(Frac(Abs(width), Abs(height)))
\* Lines 138-140.
FWHR_calc(cs) ==
    LET width == X(cs.top_right) - X(cs.top_left)
        height == Y(cs.bottom_left) - Y(cs.top_left)
    IN  IF height = 0
        THEN Raise("ZeroDivisionError")
        ELSE Return(Frac(width, height))

(***************************************************************************)
(* Landmark lists.  A list has the 68 entries of the detector, indexed     *)
(* from 0 as in Python.                                                    *)
(***************************************************************************)
\* A frontal face 200 pixels wide.
BaseFace ==
    [i \in 0..67 |->
        CASE i = 0 -> <<0, 100>>
          [] i = 16 -> <<200, 100>>
          [] i = 18 -> <<40, 80>>
          [] i = 25 -> <<160, 80>>
          [] i = 27 -> <<100, 100>>
          [] i = 30 -> <<100, 140>>
          [] i = 36 -> <<40, 100>>
          [] i = 37 -> <<50, 96>>
          [] i = 41 -> <<50, 104>>
          [] i = 43 -> <<150, 96>>
          [] i = 44 -> <<155, 96>>
          [] i = 45 -> <<160, 100>>
          [] i = 46 -> <<155, 104>>
          [] i = 50 -> <<90, 170>>
          [] i = 52 -> <<110, 170>>
          [] OTHER -> <<0, 0>>]

Jitter == 0..MaxJitter

\* The lists good_picture_check is called on: every landmark it reads
\* varies.  With a width of 200 (or -200) an eye sum difference of 20, a
\* nose difference of 7 and a left space of 120 against a right space of
\* 40 sit exactly on the three thresholds.
EdgeXs == {0, 200}
EyeYs == {100} \cup {110 + j : j \in Jitter}
NoseXs == {100} \cup {107 + j : j \in Jitter}
LeftCornerXs == {40} \cup {120 + j : j \in Jitter}
RightCornerXs == {160, 200}
GateFaces ==
    {[BaseFace EXCEPT ![0] = <<x0, 100>>, ![16] = <<x16, 100>>,
                      ![37] = <<50, y37>>, ![41] = <<50, y41>>,
                      ![44] = <<155, y44>>, ![46] = <<155, y46>>,
                      ![27] = <<x27, 100>>, ![30] = <<x30, 140>>,
                      ![36] = <<x36, 100>>, ![45] = <<x45, 100>>] :
        x0 \in EdgeXs, x16 \in EdgeXs,
        y37 \in EyeYs, y41 \in EyeYs, y44 \in EyeYs, y46 \in EyeYs,
        x27 \in NoseXs, x30 \in NoseXs,
        x36 \in LeftCornerXs, x45 \in RightCornerXs}

\* The lists get_face_points is called on: every landmark it reads varies.
\* Negative y values (a face partly above the picture) give odd negative
\* sums; 75 against 100 gives a height of 25, 75 against 75 a height of 0.
LeftEdgeXs == {0, 50}
RightEdgeXs == {50, 100}
BrowLeftYs == {-2} \cup {75 + j : j \in Jitter}
BrowRightYs == {-1, 76}
LidLeftYs == {-1} \cup {79 + j : j \in Jitter}
LidRightYs == {-2, 80}
MouthLeftYs == {75} \cup {100 + j : j \in Jitter}
MouthRightYs == {75, 101}
GeomFaces ==
    {[BaseFace EXCEPT ![0] = <<x0, 100>>, ![16] = <<x16, 100>>,
                      ![18] = <<40, y18>>, ![25] = <<160, y25>>,
                      ![37] = <<50, y37>>, ![43] = <<150, y43>>,
                      ![50] = <<90, y50>>, ![52] = <<110, y52>>] :
        x0 \in LeftEdgeXs, x16 \in RightEdgeXs,
        y18 \in BrowLeftYs, y25 \in BrowRightYs,
        y37 \in LidLeftYs, y43 \in LidRightYs,
        y50 \in MouthLeftYs, y52 \in MouthRightYs}

\* Values of the string arguments: the recognized ones and one that is not.
Methods == {"average", "left", "right", "bogus"}
Tops == {"eyebrow", "eyelid", "bogus"}
SortKeys == {"filename", "ratio", "bogus"}

(***************************************************************************)
(* Calls of good_picture_check.                                            *)
(***************************************************************************)
Idle ==
    /\ method = "average" /\ top = "eyelid"
    /\ gate = Pending /\ coords = Pending /\ corners = Pending
    /\ ratio = Pending
    /\ dir = <<>> /\ sort_by = "filename" /\ idx = 1
    /\ image_data = <<>> /\ processed = <<>> /\ error = "none"
    /\ csv_written = FALSE /\ csv = <<>>

InitGate ==
    /\ pc = "call"
    /\ points \in GateFaces
    /\ Idle

CallGoodPictureCheck ==
    /\ pc = "call"
    /\ gate' = good_picture_check(points)
    /\ pc' = IF Raised(gate') THEN "raised" ELSE "returned"
    /\ error' = IF Raised(gate') THEN gate'.val ELSE error
    /\ UNCHANGED <<points, method, top, coords, corners, ratio, dir, sort_by,
                   idx, image_data, processed, csv_written, csv>>

NextGate == CallGoodPictureCheck

SpecGate == InitGate /\ [][NextGate]_vars

(***************************************************************************)
(* Calls of get_face_points, and of FWHR_calc on the corners it returns.   *)
(***************************************************************************)
InitGeom ==
    /\ pc = "call"
    /\ points \in GeomFaces
    /\ method \in Methods
    /\ top \in Tops
    /\ gate = Pending /\ coords = Pending /\ corners = Pending
    /\ ratio = Pending
    /\ dir = <<>> /\ sort_by = "filename" /\ idx = 1
    /\ image_data = <<>> /\ processed = <<>> /\ error = "none"
    /\ csv_written = FALSE /\ csv = <<>>

\* get_face_points up to line 79.
SelectCoords ==
    /\ pc = "call"
    /\ coords' = select_coords(points, method, top)
    /\ pc' = IF Raised(coords') THEN "raised" ELSE "selected"
    /\ error' = IF Raised(coords') THEN coords'.val ELSE error
    /\ corners' = IF Raised(coords') THEN coords' ELSE corners
    /\ UNCHANGED <<points, method, top, gate, ratio, dir, sort_by, idx,
                   image_data, processed, csv_written, csv>>

\* get_face_points from line 82 to its return.
ShiftAndReturn ==
    /\ pc = "selected"
    /\ corners' = Return(box(shift_coords(coords.val, top)))
    /\ pc' = "returned"
    /\ UNCHANGED <<points, method, top, gate, coords, ratio, dir, sort_by,
                   idx, image_data, processed, error, csv_written, csv>>

CallFWHRCalc ==
    /\ pc = "returned"
    /\ ratio' = FWHR_calc(corners.val)
    /\ pc' = IF Raised(ratio') THEN "raised" ELSE "calculated"
    /\ error' = IF Raised(ratio') THEN ratio'.val ELSE error
    /\ UNCHANGED <<points, method, top, gate, coords, corners, dir, sort_by,
                   idx, image_data, processed, csv_written, csv>>

NextGeom == SelectCoords \/ ShiftAndReturn \/ CallFWHRCalc

SpecGeom == InitGeom /\ [][NextGeom]_vars

(***************************************************************************)
(* File names.  A name is the sequence of its characters.                  *)
(***************************************************************************)
\* str.endswith
EndsWith(s, suffix) ==
    /\ Len(s) >= Len(suffix)
    /\ SubSeq(s, Len(s) - Len(suffix) + 1, Len(s)) = suffix

\* Line 221.
HasImageExtension(filename) ==
    \/ EndsWith(filename, <<".", "j", "p", "g">>)
    \/ EndsWith(filename, <<".", "p", "n", "g">>)

\* The code point of a character.
Ord(ch) ==
    CASE ch = "." -> 46
      [] ch = "D" -> 68
      [] ch = "G" -> 71
      [] ch = "J" -> 74
      [] ch = "P" -> 80
      [] ch = "a" -> 97
      [] ch = "b" -> 98
      [] ch = "c" -> 99
      [] ch = "g" -> 103
      [] ch = "j" -> 106
      [] ch = "n" -> 110
      [] ch = "p" -> 112
      [] ch = "t" -> 116
      [] ch = "x" -> 120

\* Python's < on strings: by code point, a proper prefix first.
RECURSIVE StrLess(_, _)
StrLess(s, t) ==
    IF t = <<>> THEN FALSE
    ELSE IF s = <<>> THEN TRUE
    ELSE IF Ord(Head(s)) # Ord(Head(t)) THEN Ord(Head(s)) < Ord(Head(t))
    ELSE StrLess(Tail(s), Tail(t))

ImageNames ==
    {<<"b", ".", "j", "p", "g">>,
     <<"a", ".", "p", "n", "g">>,
     <<"c", ".", "j", "p", "g">>}
OtherNames ==
    {<<"c", ".", "t", "x", "t">>,
     <<"D", ".", "J", "P", "G">>}
Names == ImageNames \cup OtherNames

(***************************************************************************)
(* Files.  What a file holds is named by a string; the image loader and    *)
(* the landmark detector are external and are modelled by their outcome on *)
(* each kind of file.                                                      *)
(***************************************************************************)
\* A face whose mouth points lie above the eyelid line.
NegFace == [BaseFace EXCEPT ![50] = <<90, 60>>, ![52] = <<110, 60>>]
\* A face whose far eye is much lower in the picture than the near one.
TiltedFace == [BaseFace EXCEPT ![44] = <<155, 120>>, ![46] = <<155, 130>>]
\* A face whose mouth points lie on the shifted eyelid line.
FlatFace == [BaseFace EXCEPT ![50] = <<90, 92>>, ![52] = <<110, 92>>]
\* A face whose two edge points have the same x.
ZeroWidthFace == [BaseFace EXCEPT ![16] = <<0, 100>>]

ImageContents ==
    {"unreadable", "noface", "good", "neg", "tilted", "flat", "zerowidth"}

\* load_image with url=False (lines 24-25): the loader's outcome.
load_image(content) ==
    IF content \in {"unreadable", "other"}
    THEN Raise("OSError")
    ELSE Return(content)

\* face_recognition.api._raw_face_landmarks (line 184): one landmark list
\* per detected face.
raw_face_landmarks(image) ==
    CASE image = "good" -> <<BaseFace>>
      [] image = "neg" -> <<NegFace>>
      [] image = "tilted" -> <<TiltedFace>>
      [] image = "flat" -> <<FlatFace>>
      [] image = "zerowidth" -> <<ZeroWidthFace>>
      [] OTHER -> <<>>

\* The absent result (None; NaN in the table, an empty cell in the file).
NoRatio == <<>>

(***************************************************************************)
(* get_fwhr with url=False and show=False                                  *)
(***************************************************************************)
get_fwhr(content, m, t) ==
    LET image == load_image(content)
    IN  IF Raised(image) THEN image
        ELSE LET landmarks == raw_face_landmarks(image.val)
             IN  IF Len(landmarks) = 0
                 THEN Raise("IndexError")          \* landmarks[0], line 185
                 ELSE LET landmarks_as_tuples == landmarks[1]
                          good == good_picture_check(landmarks_as_tuples)
                      IN  IF Raised(good) THEN good
                          ELSE IF good.val
                          THEN LET cs == get_face_points(landmarks_as_tuples, m, t)
                               IN  IF Raised(cs) THEN cs
                                   ELSE FWHR_calc(cs.val)
                          ELSE Return(NoRatio)

(***************************************************************************)
(* get_fwhr_bulk                                                           *)
(***************************************************************************)
\* A variant of append_row that keeps no row for an absent ratio.
append_row_dropping_absent(data, filename, fwh_ratio) ==
    IF fwh_ratio = NoRatio THEN data ELSE Append(data, <<filename, fwh_ratio>>)
\* Line 225.
append_row(data, filename, fwh_ratio) == Append(data, <<filename, fwh_ratio>>)

\* Whether row a may stand before row b in the sorted table: sort_values
\* orders ascending and puts the absent ratios last.
RowLeq(key, a, b) ==
    IF key = "filename"
    THEN a[1] = b[1] \/ StrLess(a[1], b[1])
    ELSE \/ b[2] = NoRatio
         \/ (a[2] # NoRatio /\ ~FracGt(a[2], b[2]))

\* The orders sort_values may leave the rows in (lines 231-234): ordered by
\* the key, rows with equal keys in any order.
SortedTables(rows, key) ==
    LET n == Len(rows)
        perms == {f \in [1..n -> 1..n] :
                     /\ \A i, j \in 1..n : i # j => f[i] # f[j]
                     /\ \A i, j \in 1..n :
                            i < j => RowLeq(key, rows[f[i]], rows[f[j]])}
    IN  {[i \in 1..n |-> rows[f[i]]] : f \in perms}

\* The listings os.listdir may return: distinct names in any order, an image
\* name holding one of the image contents.
NameSeqs ==
    UNION {{ns \in [1..k -> Names] :
               \A i, j \in 1..k : i # j => ns[i] # ns[j]} : k \in 0..MaxFiles}
ContentSeqs(ns) ==
    {cs \in [1..Len(ns) -> ImageContents \cup {"other"}] :
        \A i \in 1..Len(ns) : (ns[i] \in ImageNames) <=> (cs[i] # "other")}
Directories ==
    UNION {{[i \in 1..Len(ns) |-> [name |-> ns[i], content |-> cs[i]]] :
               cs \in ContentSeqs(ns)} : ns \in NameSeqs}

InitBulk ==
    /\ pc = "loop"
    /\ dir \in Directories
    /\ sort_by \in SortKeys
    /\ idx = 1
    /\ image_data = <<>> /\ processed = <<>> /\ error = "none"
    /\ csv_written = FALSE /\ csv = <<>>
    /\ points = BaseFace /\ method = "average" /\ top = "eyelid"
    /\ gate = Pending /\ coords = Pending /\ corners = Pending
    /\ ratio = Pending

\* A call of get_fwhr on one file, with any method and top.
InitSingle ==
    /\ pc = "get_fwhr"
    /\ \E n \in ImageNames, c \in ImageContents :
           dir = <<[name |-> n, content |-> c]>>
    /\ method \in Methods
    /\ top \in Tops
    /\ sort_by = "filename" /\ idx = 1
    /\ image_data = <<>> /\ processed = <<>> /\ error = "none"
    /\ csv_written = FALSE /\ csv = <<>>
    /\ points = BaseFace
    /\ gate = Pending /\ coords = Pending /\ corners = Pending
    /\ ratio = Pending

Init == InitBulk \/ InitSingle

\* Lines 219-221: an entry without an image extension is passed over.
SkipEntry ==
    /\ pc = "loop"
    /\ idx <= Len(dir)
    /\ ~HasImageExtension(dir[idx].name)
    /\ idx' = idx + 1
    /\ UNCHANGED <<pc, points, method, top, gate, coords, corners, ratio,
                   dir, sort_by, image_data, processed, error, csv_written,
                   csv>>

\* Lines 219-225: get_fwhr returns and the row is appended.
ProcessImage ==
    /\ pc = "loop"
    /\ idx <= Len(dir)
    /\ HasImageExtension(dir[idx].name)
    /\ LET fwh_ratio == get_fwhr(dir[idx].content, "average", "eyelid")
       IN  /\ Returned(fwh_ratio)
           /\ image_data' = append_row(image_data, dir[idx].name, fwh_ratio.val)
    /\ processed' = Append(processed, dir[idx].name)
    /\ idx' = idx + 1
    /\ UNCHANGED <<pc, points, method, top, gate, coords, corners, ratio,
                   dir, sort_by, error, csv_written, csv>>

\* A variant of ImageRaises that isolates the failure: the file gets a row
\* with the absent ratio and the loop goes on.
ImageRaisesIsolated ==
    /\ pc = "loop"
    /\ idx <= Len(dir)
    /\ HasImageExtension(dir[idx].name)
    /\ Raised(get_fwhr(dir[idx].content, "average", "eyelid"))
    /\ image_data' = append_row(image_data, dir[idx].name, NoRatio)
    /\ processed' = Append(processed, dir[idx].name)
    /\ idx' = idx + 1
    /\ UNCHANGED <<pc, points, method, top, gate, coords, corners, ratio,
                   dir, sort_by, error, csv_written, csv>>
\* Lines 219-223: get_fwhr raises; nothing catches it, the call ends and
\* its local image_data is gone.
ImageRaises ==
    /\ pc = "loop"
    /\ idx <= Len(dir)
    /\ HasImageExtension(dir[idx].name)
    /\ LET fwh_ratio == get_fwhr(dir[idx].content, "average", "eyelid")
       IN  /\ Raised(fwh_ratio)
           /\ error' = fwh_ratio.val
    /\ processed' = Append(processed, dir[idx].name)
    /\ pc' = "raised"
    /\ image_data' = <<>>
    /\ UNCHANGED <<points, method, top, gate, coords, corners, ratio,
                   dir, sort_by, idx, csv_written, csv>>

\* Lines 228-241 with a recognized sort_by: the table is sorted and written.
SortAndSave ==
    /\ pc = "loop"
    /\ idx > Len(dir)
    /\ sort_by \in {"filename", "ratio"}
    /\ csv' \in SortedTables(image_data, sort_by)
    /\ csv_written' = TRUE
    /\ pc' = "done"
    /\ UNCHANGED <<points, method, top, gate, coords, corners, ratio,
                   dir, sort_by, idx, image_data, processed, error>>

\* Lines 228-237 with any other sort_by.
RejectSortKey ==
    /\ pc = "loop"
    /\ idx > Len(dir)
    /\ sort_by \notin {"filename", "ratio"}
    /\ error' = "ValueError"
    /\ pc' = "raised"
    /\ image_data' = <<>>
    /\ UNCHANGED <<points, method, top, gate, coords, corners, ratio,
                   dir, sort_by, idx, processed, csv_written, csv>>

\* get_fwhr called on its own (lines 183-201).
CallGetFwhr ==
    /\ pc = "get_fwhr"
    /\ ratio' = get_fwhr(dir[1].content, method, top)
    /\ processed' = Append(processed, dir[1].name)
    /\ pc' = IF Raised(ratio') THEN "fwhr_raised" ELSE "fwhr_returned"
    /\ error' = IF Raised(ratio') THEN ratio'.val ELSE error
    /\ UNCHANGED <<points, method, top, gate, coords, corners, dir, sort_by,
                   idx, image_data, csv_written, csv>>

Next ==
    \/ SkipEntry
    \/ ProcessImage
    \/ ImageRaises
    \/ SortAndSave
    \/ RejectSortKey
    \/ CallGetFwhr

Spec == Init /\ [][Next]_vars

(***************************************************************************)
(* Properties of good_picture_check, checked under SpecGate.  The three    *)
(* quantities are restated here from the landmarks by cross               *)
(* multiplication, independently of the operators above.                   *)
(***************************************************************************)
\* n / d > tn / td, for d # 0 and td > 0.
QuotientExceeds(n, d, tn, td) ==
    IF d > 0 THEN n * td > tn * d ELSE n * td < tn * d
QuotientEquals(n, d, tn, td) == n * td = tn * d

FaceWidth == X(points[16]) - X(points[0])
RightSpace == X(points[16]) - X(points[45])
LeftSpace == X(points[36]) - X(points[0])
\* Twice the difference of the two eye averages.
EyeSumDif == (Y(points[44]) + Y(points[46])) - (Y(points[37]) + Y(points[41]))
NoseXDif == X(points[30]) - X(points[27])

\* eye_dif = (EyeSumDif / 2) / (FaceWidth / 100) = 50 * EyeSumDif / FaceWidth
EyeExceeds == QuotientExceeds(50 * EyeSumDif, FaceWidth, 5, 1)
NoseExceeds == QuotientExceeds(100 * NoseXDif, FaceWidth, 7, 2)
SpaceExceeds == QuotientExceeds(LeftSpace, RightSpace, 3, 1)
GateCalled == pc \in {"returned", "raised"}

\* C1: with nonzero face width and nonzero right space, good_picture_check
\* returns, and it returns false exactly when eye_dif > 5 or nose_dif > 3.5
\* or space_ratio > 3 (strictly: a value on its threshold is accepted).
C1_GateRejectsIffExceeded ==
    (GateCalled /\ FaceWidth # 0 /\ RightSpace # 0) =>
        /\ Returned(gate)
        /\ (gate.val = FALSE) <=> (EyeExceeds \/ NoseExceeds \/ SpaceExceeds)

\* C1's case: all three values exactly on their thresholds, accepted.
C1_Witness ==
    /\ GateCalled /\ FaceWidth # 0 /\ RightSpace # 0
    /\ QuotientEquals(50 * EyeSumDif, FaceWidth, 5, 1)
    /\ QuotientEquals(100 * NoseXDif, FaceWidth, 7, 2)
    /\ QuotientEquals(LeftSpace, RightSpace, 3, 1)
    /\ Returned(gate) /\ gate.val = TRUE

\* C2: with positive face width, an eye-height difference whose magnitude
\* exceeds 5 is not accepted, whichever eye is the higher one.
C2_RejectsEitherDirection ==
    (GateCalled /\ FaceWidth > 0 /\ 50 * Abs(EyeSumDif) > 5 * FaceWidth) =>
        ~(Returned(gate) /\ gate.val = TRUE)

(***************************************************************************)
(* Properties of get_face_points and FWHR_calc, checked under SpecGeom.    *)
(***************************************************************************)
\* q is s / 2 truncated toward zero.
IsTruncHalf(q, s) ==
    /\ 2 * Abs(q) <= Abs(s)
    /\ Abs(s) - 2 * Abs(q) <= 1
    /\ q * s >= 0
TruncHalf(s) == CHOOSE q \in -Abs(s)..Abs(s) : IsTruncHalf(q, s)

TopLeftY == IF top = "eyebrow" THEN Y(points[18]) ELSE Y(points[37])
TopRightY == IF top = "eyebrow" THEN Y(points[25]) ELSE Y(points[43])
\* The value method selects from a left and a right value.
SelectedBy(m, l, r) ==
    IF m = "left" THEN l ELSE IF m = "right" THEN r ELSE TruncHalf(l + r)
ExpectedTopY(m) ==
    SelectedBy(m, TopLeftY, TopRightY) - (IF top = "eyelid" THEN 4 ELSE 0)
ExpectedBottomY(m) == SelectedBy(m, Y(points[50]), Y(points[52]))
ValidTop == top \in {"eyebrow", "eyelid"}
CoordsSelected == pc # "call" /\ Returned(coords)
CornersReturned == Returned(corners)
RatioCalled == Returned(corners) /\ pc \in {"calculated", "raised"}

\* C7: before the eyelid shift, method 'average' gives the truncated
\* integer averages of the two top y values and of the y values of points
\* 50 and 52; 'left' gives the left top y and point 50's y; 'right' gives
\* the right top y and point 52's y; under both values of top.
C7_CoordsBeforeShift ==
    CoordsSelected =>
        /\ method = "average" =>
              /\ IsTruncHalf(coords.val[3], TopLeftY + TopRightY)
              /\ IsTruncHalf(coords.val[4], Y(points[50]) + Y(points[52]))
        /\ method = "left" =>
              /\ coords.val[3] = TopLeftY
              /\ coords.val[4] = Y(points[50])
        /\ method = "right" =>
              /\ coords.val[3] = TopRightY
              /\ coords.val[4] = Y(points[52])

\* C7's case: an average of two top values whose sum is odd and negative.
C7_Witness ==
    /\ CoordsSelected /\ method = "average"
    /\ TopLeftY + TopRightY < 0
    /\ (TopLeftY + TopRightY) % 2 = 1
    /\ 2 * coords.val[3] = TopLeftY + TopRightY + 1

\* C8: with top 'eyelid' the returned top y of both top corners is the value
\* method selects from points 37 and 43, less 4; with 'eyebrow' it is the
\* value selected from points 18 and 25, unshifted; the bottom y of both
\* bottom corners is the value selected from points 50 and 52, never shifted.
C8_EyelidShift ==
    CornersReturned =>
        /\ top = "eyelid" =>
              Y(corners.val.top_left) =
                  SelectedBy(method, Y(points[37]), Y(points[43])) - 4
        /\ top = "eyebrow" =>
              Y(corners.val.top_left) =
                  SelectedBy(method, Y(points[18]), Y(points[25]))
        /\ Y(corners.val.top_right) = Y(corners.val.top_left)
        /\ Y(corners.val.bottom_left) = ExpectedBottomY(method)
        /\ Y(corners.val.bottom_right) = ExpectedBottomY(method)

\* C8's case: corners returned for top 'eyelid'.
C8_Witness ==
    /\ CornersReturned /\ top = "eyelid"
    /\ Y(corners.val.top_left) + 4 = coords.val[3]
    /\ Y(corners.val.bottom_left) = coords.val[4]

\* C9: an unrecognized top raises ValueError and yields no corners, for
\* every method; with a valid top every method other than 'left' and
\* 'right' raises nothing and yields the corners of method 'average'.
C9_TopStrictMethodLenient ==
    (pc # "call") =>
        /\ ~ValidTop =>
              /\ pc = "raised" /\ error = "ValueError"
              /\ Raised(corners) /\ corners.val = "ValueError"
        /\ (ValidTop /\ method \notin {"left", "right"} /\ pc # "selected") =>
              /\ Returned(corners)
              /\ corners.val =
                    [top_left |-> <<X(points[0]), ExpectedTopY("average")>>,
                     bottom_left |-> <<X(points[0]), ExpectedBottomY("average")>>,
                     top_right |-> <<X(points[16]), ExpectedTopY("average")>>,
                     bottom_right |-> <<X(points[16]), ExpectedBottomY("average")>>]

\* C9's case: an unrecognized method with a valid top returned corners.
C9_Witness ==
    /\ method = "bogus" /\ ValidTop /\ Returned(corners)

\* C10: FWHR_calc on the corners of get_face_points returns
\* (points[16].x - points[0].x) / (bottom y - top y), negative when the
\* height is negative, and raises ZeroDivisionError when the height is 0.
C10_RatioIsWidthOverHeight ==
    RatioCalled =>
        LET width == X(points[16]) - X(points[0])
            height == ExpectedBottomY(method) - ExpectedTopY(method)
        IN  IF height = 0
            THEN Raised(ratio) /\ ratio.val = "ZeroDivisionError"
            ELSE /\ Returned(ratio)
                 /\ ratio.val[2] > 0
                 /\ ratio.val[1] * height = width * ratio.val[2]

\* C10's case: a negative height under a positive width gives a negative
\* ratio.
C10_Witness ==
    /\ RatioCalled /\ Returned(ratio)
    /\ X(points[16]) - X(points[0]) > 0
    /\ ExpectedBottomY(method) - ExpectedTopY(method) < 0
    /\ ratio.val[1] < 0

\* A further case of C10: width 50 over height 25 gives exactly 2.0.
C10_WitnessTwoExactly ==
    /\ RatioCalled /\ Returned(ratio)
    /\ X(points[16]) - X(points[0]) = 50
    /\ ExpectedBottomY(method) - ExpectedTopY(method) = 25
    /\ ratio.val = <<2, 1>>

\* A further case of C10: a height of 0 raises.
C10_WitnessZeroHeight ==
    /\ RatioCalled /\ Raised(ratio) /\ ratio.val = "ZeroDivisionError"

(***************************************************************************)
(* Properties of get_fwhr_bulk and get_fwhr, checked under Spec.  What     *)
(* each kind of file must give is stated here outright: the ratios worked  *)
(* out by hand from the landmark lists (200 / 78 and 200 / -32), the       *)
(* exception each bad file ends in, and which names are images.            *)
(***************************************************************************)
InBulk == pc \in {"loop", "done", "raised"}
BulkEnded == pc \in {"done", "raised"}
SingleEnded == pc \in {"fwhr_returned", "fwhr_raised"}
ValidSortKey == sort_by \in {"filename", "ratio"}

ExpectedCell(content) ==
    CASE content = "good" -> <<100, 39>>
      [] content = "neg" -> <<-25, 4>>
      [] content = "tilted" -> NoRatio
      [] OTHER -> <<0, 0>>
ExpectedError(content) ==
    CASE content = "unreadable" -> "OSError"
      [] content = "noface" -> "IndexError"
      [] content = "flat" -> "ZeroDivisionError"
      [] content = "zerowidth" -> "ZeroDivisionError"
      [] OTHER -> "none"

ImageEntries == {i \in 1..Len(dir) : dir[i].name \in ImageNames}
BadEntries == {i \in ImageEntries : ExpectedError(dir[i].content) # "none"}
FirstBad == CHOOSE i \in BadEntries : \A j \in BadEntries : i <= j
\* The image entries among the first n of the listing, in listing order.
ImagesUpTo(n) == SelectSeq(SubSeq(dir, 1, n), LAMBDA e : e.name \in ImageNames)

\* C3: when get_fwhr_bulk completes, the written table has exactly one row
\* per entry named *.jpg or *.png and none for any other entry; an image
\* that fails the gate keeps its row, with the absent ratio; an image that
\* passes holds the ratio of method 'average' and top 'eyelid'.
C3_OneRowPerImage ==
    (pc = "done") =>
        /\ csv_written
        /\ Len(csv) = Cardinality(ImageEntries)
        /\ \A i \in ImageEntries :
               \E k \in 1..Len(csv) :
                   csv[k] = <<dir[i].name, ExpectedCell(dir[i].content)>>
        /\ \A k \in 1..Len(csv) :
               \E i \in ImageEntries : csv[k][1] = dir[i].name

\* C3's case: three images, exactly one of which fails the gate, and a
\* table of three rows, one of them with the absent ratio.
C3_Witness ==
    /\ pc = "done"
    /\ Cardinality(ImageEntries) = 3
    /\ Cardinality({i \in ImageEntries : dir[i].content = "tilted"}) = 1
    /\ Len(csv) = 3
    /\ Cardinality({k \in 1..Len(csv) : csv[k][2] = NoRatio}) = 1

\* C4: with a sort_by other than 'filename' and 'ratio', get_fwhr_bulk ends
\* with ValueError and the file is not written, whatever the directory
\* holds.
C4_BadSortKeyEndsInValueError ==
    (BulkEnded /\ ~ValidSortKey) =>
        /\ pc = "raised"
        /\ error = "ValueError"
        /\ ~csv_written

\* C5: an unrecognized sort_by is rejected before get_fwhr_bulk processes
\* any image file, and get_fwhr with an unrecognized top ends with
\* ValueError for every image.
C5_ValidationBeforeProcessing ==
    /\ (InBulk /\ ~ValidSortKey) => processed = <<>>
    /\ (SingleEnded /\ ~ValidTop) =>
           (pc = "fwhr_raised" /\ error = "ValueError")

\* C6: if get_fwhr raises on some image file, get_fwhr_bulk ends with the
\* exception of the first such file in the listing, the loop never passes
\* that file, the rows collected before it are gone, and nothing is written.
C6_BadFileAbortsBatch ==
    (InBulk /\ BadEntries # {}) =>
        /\ pc # "done"
        /\ idx <= FirstBad
        /\ ~csv_written /\ csv = <<>>
        /\ pc = "raised" =>
              /\ error = ExpectedError(dir[FirstBad].content)
              /\ image_data = <<>>
              /\ Len(processed) = Len(ImagesUpTo(FirstBad))
              /\ \A k \in 1..Len(processed) :
                     processed[k] = ImagesUpTo(FirstBad)[k].name

\* C6's case: a good image, then a bad one, then another image that is
\* never processed.
C6_Witness ==
    /\ pc = "raised"
    /\ Len(dir) = 3 /\ ImageEntries = {1, 2, 3}
    /\ BadEntries # {} /\ FirstBad = 2
    /\ dir[1].content = "good"
    /\ Len(processed) = 2
    /\ error = ExpectedError(dir[2].content)

====
